---- MODULE Spec2Model ----
(***************************************************************************)
(* A model of texpaint's raster display engine: the ImageDisplay widget    *)
(* (src/src/widget/imageDisplay.ts), its snapshot history, its image load  *)
(* and the file-open listeners that feed it.                               *)
(*                                                                         *)
(* Pixel buffers are JavaScript objects, and undo()/redo() assign a        *)
(* history entry to this.buffer without copying it, so the model keeps a   *)
(* heap: a buffer is a reference, the heap maps references to byte         *)
(* sequences, and two places holding the same reference share storage.     *)
(***************************************************************************)
EXTENDS Integers, Sequences, FiniteSets, Bags, TLC

\* ---------------------------------------------------------------- bounds
MaxHistory == 3      \* checkpoint() is offered while history.length < MaxHistory
MaxDaubs == 3        \* daubs painted in one behaviour
MaxInFlight == 2     \* file reads and image decodes in flight at once
MaxListeners == 2    \* 'change' listeners registered on the file selector

\* References: enough for a full history, the slot undo() adds, the live
\* buffer and the copy being made.
NRefs == MaxHistory + 3
Refs == 1..NRefs

\* JavaScript's undefined, as the value of an empty array slot or of a
\* read past the end of an array.
Undefined == 0

\* ------------------------------------------------------ program constants
\* imageDisplay.ts:27  const brushSize = 40.0
brushSize == 40
\* imageDisplay.ts:29  vec3.set(brushColor, 0, 0, 0): every channel is 0
brushColor == 0
\* imageDisplay.ts:99  new Brush(brushSize, brushColor, 0.4, this): the
\* opacity 0.4, in tenths
brushOpacityTenths == 4

\* The canvas of the window manager, <<width, height>>, and the size the
\* widget is constructed with. Odd sizes keep canvas.width / 2 - this.width / 2
\* an integer.
CanvasSize == <<5, 5>>
InitSize == <<1, 1>>

\* ---------------------------------------------------------- JS array ops
Max(a, b) == IF a >= b THEN a ELSE b
Min(a, b) == IF a <= b THEN a ELSE b
Abs(n) == IF n < 0 THEN -n ELSE n

\* array.length = n: truncates, or extends with empty slots.
SetLength(arr, n) ==
    [i \in 1..n |-> IF i <= Len(arr) THEN arr[i] ELSE Undefined]

\* array[i] (0-based): undefined past the end.
ArrayGet(arr, i) ==
    IF i >= 0 /\ i < Len(arr) THEN arr[i + 1] ELSE Undefined

\* array[i] = v (0-based): the array grows to hold index i, the slots in
\* between stay empty.
ArraySet(arr, i, v) ==
    [k \in 1..Max(Len(arr), i + 1) |->
        IF k = i + 1 THEN v ELSE IF k <= Len(arr) THEN arr[k] ELSE Undefined]

\* array.push(v)
ArrayPush(arr, v) == Append(arr, v)

\* ------------------------------------------------------------------ heap
\* The first free reference.
NewRef(hp) ==
    CHOOSE r \in Refs : r \notin DOMAIN hp /\ \A q \in 1..(r - 1) : q \in DOMAIN hp

\* The bytes behind a reference; a typed array built from undefined is empty.
Bytes(hp, ref) == IF ref \in DOMAIN hp THEN hp[ref] ELSE <<>>

\* new Uint8ClampedArray(src): a fresh object holding a copy of src's bytes.
Store(hp, ref, bytes) == [r \in DOMAIN hp \cup {ref} |-> IF r = ref THEN bytes ELSE hp[r]]

\* ------------------------------------------------------- ImageDisplay state
VARIABLES
    width, height,      \* this.width, this.height
    heap,               \* reference -> bytes of that Uint8ClampedArray
    buffer,             \* this.buffer, a reference
    history,            \* this.history, an array of references
    historyIndex,       \* this.historyIndex
    updated,            \* this.updated
    texture             \* what _swapBuffer() last uploaded: <<bytes, width>>

\* The fields checkpoint(), undo() and redo() read and write, as one record.
Display ==
    [heap |-> heap, buffer |-> buffer, history |-> history,
     historyIndex |-> historyIndex, updated |-> updated]

\* markUpdate()
markUpdate(d) == [d EXCEPT !.updated = TRUE]

\* checkpoint() without the truncation history.length = historyIndex.
checkpointKeepingRedo(d) ==
    LET currentBuffer == NewRef(d.heap)
    IN  [d EXCEPT !.heap = Store(d.heap, currentBuffer, Bytes(d.heap, d.buffer)),
                  !.history = ArrayPush(d.history, currentBuffer),
                  !.historyIndex = d.historyIndex + 1]

\* A checkpoint that takes no snapshot.
checkpointNothing(d) == d

\* checkpoint(): history.length = historyIndex; push a copy of the live
\* buffer; historyIndex++.
checkpoint(d) ==
    LET cut == SetLength(d.history, d.historyIndex)
        currentBuffer == NewRef(d.heap)
    IN  [d EXCEPT !.heap = Store(d.heap, currentBuffer, Bytes(d.heap, d.buffer)),
                  !.history = ArrayPush(cut, currentBuffer),
                  !.historyIndex = d.historyIndex + 1]

\* undo() without the copy of the live buffer stored in the slot it leaves.
undoDiscardingLive(d) ==
    LET idx == IF d.historyIndex > Len(d.history) THEN Len(d.history)
               ELSE d.historyIndex
    IN  IF idx > 0
        THEN markUpdate(
                 [d EXCEPT !.historyIndex = idx - 1,
                           !.buffer = ArrayGet(d.history, idx - 1)])
        ELSE [d EXCEPT !.historyIndex = idx]

\* undo() without the test historyIndex > 0.
undoUnguarded(d) ==
    LET idx == IF d.historyIndex > Len(d.history) THEN Len(d.history)
               ELSE d.historyIndex
        saved == NewRef(d.heap)
        hist == ArraySet(d.history, idx, saved)
    IN  markUpdate(
            [d EXCEPT !.heap = Store(d.heap, saved, Bytes(d.heap, d.buffer)),
                      !.history = hist,
                      !.historyIndex = idx - 1,
                      !.buffer = ArrayGet(hist, idx - 1)])

\* undo(): clamp the cursor to history.length; when it is positive, store
\* a copy of the live buffer at history[historyIndex], step back, and make
\* history[historyIndex] itself (no copy) the live buffer.
undo(d) ==
    LET idx == IF d.historyIndex > Len(d.history) THEN Len(d.history)
               ELSE d.historyIndex
        saved == NewRef(d.heap)
        hist == ArraySet(d.history, idx, saved)
    IN  IF idx > 0
        THEN markUpdate(
                 [d EXCEPT !.heap = Store(d.heap, saved, Bytes(d.heap, d.buffer)),
                           !.history = hist,
                           !.historyIndex = idx - 1,
                           !.buffer = ArrayGet(hist, idx - 1)])
        ELSE [d EXCEPT !.historyIndex = idx]

\* redo() that steps forward whenever the cursor is below history.length.
redoPastEnd(d) ==
    IF d.historyIndex < Len(d.history)
    THEN markUpdate(
             [d EXCEPT !.historyIndex = d.historyIndex + 1,
                       !.buffer = ArrayGet(d.history, d.historyIndex + 1)])
    ELSE d

\* redo(): when a snapshot follows the cursor, step forward and make
\* history[historyIndex] itself (no copy) the live buffer.
redo(d) ==
    IF d.historyIndex < Len(d.history) - 1
    THEN markUpdate(
             [d EXCEPT !.historyIndex = d.historyIndex + 1,
                       !.buffer = ArrayGet(d.history, d.historyIndex + 1)])
    ELSE d

\* Garbage collection, and a canonical numbering of the references left: a
\* reference's number is not observable, so the objects are numbered in the
\* order history and then buffer name them.
Tidy(d) ==
    LET named == d.history \o <<d.buffer>>
        First(r) == CHOOSE i \in 1..Len(named) :
                        named[i] = r /\ \A j \in 1..(i - 1) : named[j] # r
        Rank(r) == Cardinality({named[j] : j \in 1..First(r)} \cap DOMAIN d.heap)
        Renamed(r) == IF r \in DOMAIN d.heap THEN Rank(r) ELSE Undefined
        live == {named[j] : j \in 1..Len(named)} \cap DOMAIN d.heap
    IN  [d EXCEPT
            !.heap = [k \in 1..Cardinality(live) |->
                         d.heap[CHOOSE r \in live : Rank(r) = k]],
            !.history = [i \in 1..Len(d.history) |-> Renamed(d.history[i])],
            !.buffer = Renamed(d.buffer)]

\* The live buffer's bytes.
Live(d) == Bytes(d.heap, d.buffer)

\* createLayerBuffer(true): width * height * 4 bytes, all 255.
createLayerBuffer(w, h) == [i \in 1..(w * h * 4) |-> 255]

\* ------------------------------------------------------------ view state
VARIABLES
    imageMatrix,        \* this.imageMatrix: a uniform scale sn/sd followed by
                        \* a translation, [tx, ty, sn, sd]
    meshMatrix,         \* this.meshMatrix: a uniform scale sn/sd followed by
                        \* a translation in units of 1/200, [tx, ty, tz, sn, sd]
    displayType,        \* the active view, "Texture" or "Mesh"
    eventState,         \* the module's eventState object
    brushStroking       \* the brush's state: TRUE while Stroking

\* handlePanMove scales the mesh pan by 0.005 = 1/200.
MeshUnit == 200

\* mat4.create(): the identity.
IdentityImage == [tx |-> 0, ty |-> 0, sn |-> 1, sd |-> 1]
IdentityMesh == [tx |-> 0, ty |-> 0, tz |-> 0, sn |-> 1, sd |-> 1]

\* A reset that puts the image at the origin of the canvas.
ResetImageMatrixOrigin(w, h) == IdentityImage

\* resetImageTransform(), the matrices: the image is centred on the canvas,
\* the mesh is pushed back by 6.
ResetImageMatrix(w, h) ==
    [tx |-> (CanvasSize[1] - w) \div 2, ty |-> (CanvasSize[2] - h) \div 2,
     sn |-> 1, sd |-> 1]
ResetMeshMatrix == [tx |-> 0, ty |-> 0, tz |-> -6 * MeshUnit, sn |-> 1, sd |-> 1]

\* Whether imageMatrix takes an image point with integer coordinates to the
\* UI point: the handlers are offered such points only, and every quotient
\* below is then exact.
OnGrid(m, uiCoord) ==
    IF m.sn = 0
    THEN TRUE
    ELSE /\ ((uiCoord[1] - m.tx) * m.sd) % m.sn = 0
         /\ ((uiCoord[2] - m.ty) * m.sd) % m.sn = 0

\* uiToImageCoordinates(uiCoord) that applies imageMatrix instead of its
\* inverse.
uiToImageCoordinatesForward(m, uiCoord) ==
    <<(uiCoord[1] * m.sn) \div m.sd + m.tx, (uiCoord[2] * m.sn) \div m.sd + m.ty>>

\* uiToImageCoordinates(uiCoord): the inverse of imageMatrix applied to the
\* UI point. mat4.invert returns null for a matrix of determinant 0 and
\* leaves invImageMatrix as mat4.create() made it, the identity; its result
\* is not looked at.
uiToImageCoordinates(m, uiCoord) ==
    IF m.sn = 0
    THEN <<uiCoord[1], uiCoord[2]>>
    ELSE <<((uiCoord[1] - m.tx) * m.sd) \div m.sn,
           ((uiCoord[2] - m.ty) * m.sd) \div m.sn>>

\* ------------------------------------------------------------- the brush
\* Pressure is kept in tenths; the mouse handlers pass 1.0.
MousePressure == 10

\* One channel blended toward a colour by an opacity (in tenths), rounded
\* as a Uint8ClampedArray store rounds.
BlendWith(old, color, opacityTenths) ==
    ((10 - opacityTenths) * old + opacityTenths * color + 5) \div 10

\* The blend of the display's brush.
Blend(old) == BlendWith(old, brushColor, brushOpacityTenths)

\* The effective radius, in tenths of a pixel: size * pressure, at least 1.
EffectiveRadius(size, pressure) == Max(10, size * pressure)

\* A square in place of the disc.
InSquare(x, y, c, r10) ==
    10 * Abs(x - c[1]) <= r10 /\ 10 * Abs(y - c[2]) <= r10

\* Whether pixel (x, y) lies in the disc of radius r10 tenths centred at c.
InDisc(x, y, c, r10) ==
    100 * ((x - c[1]) * (x - c[1]) + (y - c[2]) * (y - c[2])) <= r10 * r10

\* Whether pixel (x, y) lies in the disc of the display's brush at c.
InDaub(x, y, c, pressure) == InDisc(x, y, c, EffectiveRadius(brushSize, pressure))

\* A daub on the bytes of a w-pixel-wide buffer: the pixels of the disc are
\* blended and made opaque, the others are left alone; a pixel outside the
\* buffer is not painted.
DaubWith(bytes, w, c, r10, color, opacityTenths) ==
    [i \in 1..Len(bytes) |->
        LET px == (i - 1) \div 4
            x == px % w
            y == px \div w
        IN  IF InDisc(x, y, c, r10)
            THEN IF (i - 1) % 4 = 3 THEN 255 ELSE BlendWith(bytes[i], color, opacityTenths)
            ELSE bytes[i]]

\* A daub of the display's brush.
Daub(bytes, w, c, pressure) ==
    DaubWith(bytes, w, c, EffectiveRadius(brushSize, pressure), brushColor, brushOpacityTenths)

\* The brush paints into the live buffer object in place and marks the
\* surface updated.
paint(d, w, c, pressure) ==
    IF d.buffer \in DOMAIN d.heap
    THEN markUpdate([d EXCEPT !.heap[d.buffer] = Daub(d.heap[d.buffer], w, c, pressure)])
    ELSE markUpdate(d)

\* The brush state (Stroking or not) after startStroke and after
\* finishStroke: a start opens a stroke whether or not one was open, a
\* finish leaves none open.
startToggles(stroking) == ~stroking
StrokingAfterStart(stroking) == TRUE
StrokingAfterFinish(stroking) == FALSE

\* startStroke: the first daub is painted at once.
startStroke(d, w, c, pressure) == paint(d, w, c, pressure)

\* continueStroke: a daub while Stroking, nothing while Idle.
continueStroke(d, stroking, w, c, pressure) ==
    IF stroking THEN paint(d, w, c, pressure) ELSE d

\* A finish that paints and checkpoints in every state.
finishStrokeAlways(d, stroking, w, c, pressure) == checkpoint(paint(d, w, c, pressure))

\* finishStroke: while Stroking, a last daub and a history checkpoint;
\* nothing while Idle.
finishStroke(d, stroking, w, c, pressure) ==
    IF stroking THEN checkpoint(paint(d, w, c, pressure)) ELSE d

\* ------------------------------------------------- files, reads and loads
VARIABLES
    listeners,          \* 'change' listeners on #file-selector, by the
                        \* handleKeyup that added them: [display, events]
    reads,              \* FileReader reads in flight: a bag of [via, file]
    decodes,            \* image decodes in flight: a bag of image names
    mesh,               \* this.mesh
    wmMesh,             \* windowManager.mesh
    thrown,             \* the messages of the errors the last step threw
    rendererError       \* Renderer's error state: "none" (null) or the
                        \* message of the error it shows

\* What the user can pick in the file dialog. A file's type starts with
\* 'image' exactly when it is one of ImageTypes, its name ends with '.obj'
\* exactly when it is one of ObjNames.
ImageTypes == {"image/png"}
ObjNames == {"cube.obj"}
Files ==
    { [type |-> "image/png", name |-> "a.png", content |-> "A"],
      [type |-> "image/png", name |-> "b.png", content |-> "B"],
      [type |-> "", name |-> "cube.obj", content |-> "cube"],
      [type |-> "text/plain", name |-> "notes.txt", content |-> "text"] }

IsImage(file) == file.type \in ImageTypes
IsObj(file) == file.name \in ObjNames

\* What the decoder (img element, scratch canvas, getImageData) yields.
Images == {"A", "B"}
ImageData(img) ==
    IF img = "A"
    THEN [width |-> 1, height |-> 1, data |-> <<10, 20, 30, 255>>]
    ELSE [width |-> 3, height |-> 1,
          data |-> [i \in 1..12 |-> IF i % 4 = 0 THEN 255 ELSE 100 + i]]

\* n copies of x as a bag.
Copies(x, n) == IF n > 0 THEN [k \in {x} |-> n] ELSE EmptyBag

\* ------------------------------------------------- the application's views
VARIABLES
    showTexture,        \* App's showTexture state: TexturePaint is rendered
    showMesh            \* App's showMesh state: MeshPaint is rendered

\* ------------------------------------------------------ the redraw request
VARIABLE
    dirty               \* the events module's _dirty flag

\* ------------------------------------------------------ bookkeeping state
VARIABLE
    brushCall           \* the call of the brush the last step made, with the
                        \* pointerType and the position of the event that
                        \* made it, or NoCall

VARIABLES
    lastOp,             \* the operation the last step performed
    nDaubs,             \* daubs painted so far
    preStroke,          \* while a stroke is open: the live bytes just before
                        \* its stroke-start
    lastLoad            \* the image of the last load() call, or "none"

displayVars == <<width, height, heap, buffer, history, historyIndex, updated>>
viewVars == <<imageMatrix, meshMatrix, displayType>>
inputVars == <<eventState, brushStroking>>
fileVars == <<listeners, reads, decodes, mesh, wmMesh, thrown, rendererError>>
countVars == <<nDaubs, preStroke, lastLoad, brushCall>>
appVars == <<showTexture, showMesh>>
vars == <<displayVars, texture, viewVars, inputVars, fileVars, appVars, dirty,
          countVars, lastOp>>

\* A call fn(c, pressure) of the brush, made for an event of that
\* pointerType at that position.
BrushCall(fn, c, pressure, pointerType, position) ==
    [fn |-> fn, c |-> c, pressure |-> pressure,
     pointerType |-> pointerType, position |-> position]

\* The position recorded for an event whose handler receives none, and the
\* record of a step that calls no brush function.
NoPosition == <<0, 0>>
NoCall == BrushCall("none", NoPosition, 0, "none", NoPosition)

\* The constructor (imageDisplay.ts) and the module's eventState, with m
\* for imageMatrix.
InitWith(m) ==
    /\ width = InitSize[1]
    /\ height = InitSize[2]
    /\ heap = [r \in {1} |-> createLayerBuffer(InitSize[1], InitSize[2])]
    /\ buffer = 1
    /\ history = <<>>
    /\ historyIndex = 0
    /\ updated = FALSE
    /\ texture = <<<<>>, 0>>
    /\ imageMatrix = m
    /\ meshMatrix = IdentityMesh
    /\ displayType = "Texture"
    /\ eventState = [mouseButtonsDown |-> [b \in {0, 1} |-> FALSE],
                     lastMousePosition |-> <<0, 0>>,
                     lastPointerPosition |-> <<0, 0>>,
                     pan |-> FALSE,
                     lastPanPosition |-> <<0, 0>>,
                     lastPressure |-> 0,
                     pointerDown |-> FALSE,
                     altKey |-> FALSE]
    /\ brushStroking = FALSE
    /\ listeners = [display |-> 0, events |-> 0]
    /\ reads = EmptyBag
    /\ decodes = EmptyBag
    /\ mesh = "none"
    /\ wmMesh = "none"
    /\ thrown = {}
    /\ rendererError = "none"
    /\ showTexture = FALSE
    /\ showMesh = TRUE
    /\ dirty = FALSE
    /\ brushCall = NoCall
    /\ lastOp = "init"
    /\ nDaubs = 0
    /\ preStroke = <<>>
    /\ lastLoad = "none"

Init == InitWith(IdentityImage)

\* The primed ImageDisplay fields are those of record d.
SetDisplay(d) ==
    /\ heap' = d.heap
    /\ buffer' = d.buffer
    /\ history' = d.history
    /\ historyIndex' = d.historyIndex
    /\ updated' = d.updated

\* The file reads and image decodes in flight.
InFlight == BagCardinality(reads) + BagCardinality(decodes)

\* What a step that touches neither files nor loads leaves alone.
NoFileStep ==
    /\ UNCHANGED <<listeners, reads, decodes, mesh, wmMesh, lastLoad, rendererError>>
    /\ UNCHANGED appVars
    /\ thrown' = {}

\* ------------------------------------------------------- history actions
\* checkpoint() called by the embedding application; lastOp tells a call
\* that cut snapshots off from one that only appended.
Checkpoint ==
    /\ historyIndex < MaxHistory
    /\ SetDisplay(Tidy(checkpoint(Display)))
    /\ lastOp' = IF historyIndex < Len(history) THEN "checkpointCut" ELSE "checkpoint"
    /\ UNCHANGED <<width, height, texture, viewVars, inputVars, nDaubs, preStroke>>
    /\ NoFileStep
    /\ UNCHANGED dirty
    /\ brushCall' = NoCall

\* The key-down events offered to handleKeydown.
KeydownEvents ==
    { [keyCode |-> 90, ctrlKey |-> TRUE, shiftKey |-> FALSE, isComposing |-> FALSE, key |-> "z"],
      [keyCode |-> 90, ctrlKey |-> TRUE, shiftKey |-> TRUE, isComposing |-> FALSE, key |-> "Z"],
      [keyCode |-> 82, ctrlKey |-> TRUE, shiftKey |-> FALSE, isComposing |-> FALSE, key |-> "r"],
      [keyCode |-> 90, ctrlKey |-> FALSE, shiftKey |-> FALSE, isComposing |-> FALSE, key |-> "z"],
      [keyCode |-> 90, ctrlKey |-> TRUE, shiftKey |-> FALSE, isComposing |-> TRUE, key |-> "z"],
      [keyCode |-> 229, ctrlKey |-> TRUE, shiftKey |-> FALSE, isComposing |-> FALSE, key |-> "Process"],
      [keyCode |-> 18, ctrlKey |-> FALSE, shiftKey |-> FALSE, isComposing |-> FALSE, key |-> "Alt"] }

\* The history intent of a key-down, as handleKeydown decides it.
KeydownIntent(e) ==
    IF e.isComposing \/ e.keyCode = 229 THEN "keydown"
    ELSE IF e.keyCode = 90 /\ e.ctrlKey THEN (IF e.shiftKey THEN "redo" ELSE "undo")
    ELSE IF e.keyCode = 82 /\ e.ctrlKey THEN "redo"
    ELSE "keydown"

\* A handleKeydown whose Ctrl+Z calls undo() twice.
handleKeydownTwice(e) ==
    /\ IF e.isComposing \/ e.keyCode = 229
       THEN UNCHANGED <<heap, buffer, history, historyIndex, updated, eventState>>
       ELSE LET afterZ == IF e.keyCode = 90 /\ e.ctrlKey
                          THEN (IF e.shiftKey THEN redo(Display) ELSE undo(undo(Display)))
                          ELSE Display
                afterR == IF e.keyCode = 82 /\ e.ctrlKey THEN redo(afterZ) ELSE afterZ
            IN  /\ SetDisplay(Tidy(afterR))
                /\ eventState' = IF e.key = "Alt"
                                 THEN [eventState EXCEPT !.altKey = TRUE]
                                 ELSE eventState
    /\ lastOp' = KeydownIntent(e)
    /\ UNCHANGED <<width, height, texture, viewVars, brushStroking, nDaubs, preStroke>>
    /\ NoFileStep
    /\ dirty' = TRUE
    /\ brushCall' = NoCall

\* handleKeydown(e)
handleKeydown(e) ==
    /\ IF e.isComposing \/ e.keyCode = 229
       THEN UNCHANGED <<heap, buffer, history, historyIndex, updated, eventState>>
       ELSE LET afterZ == IF e.keyCode = 90 /\ e.ctrlKey
                          THEN (IF e.shiftKey THEN redo(Display) ELSE undo(Display))
                          ELSE Display
                afterR == IF e.keyCode = 82 /\ e.ctrlKey THEN redo(afterZ) ELSE afterZ
            IN  /\ SetDisplay(Tidy(afterR))
                /\ eventState' = IF e.key = "Alt"
                                 THEN [eventState EXCEPT !.altKey = TRUE]
                                 ELSE eventState
    /\ lastOp' = KeydownIntent(e)
    /\ UNCHANGED <<width, height, texture, viewVars, brushStroking, nDaubs, preStroke>>
    /\ NoFileStep
    /\ dirty' = TRUE
    /\ brushCall' = NoCall

\* A draw() that uploads but keeps the flag.
drawKeepingFlag ==
    /\ IF updated
       THEN texture' = <<Bytes(heap, buffer), width>>
       ELSE UNCHANGED texture
    /\ lastOp' = "draw"
    /\ UNCHANGED <<width, height, heap, buffer, history, historyIndex, updated,
                   viewVars, inputVars, nDaubs, preStroke>>
    /\ NoFileStep
    /\ UNCHANGED dirty
    /\ brushCall' = NoCall

\* draw(): upload the buffer when updated is set, and clear the flag.
draw ==
    /\ IF updated
       THEN texture' = <<Bytes(heap, buffer), width>> /\ updated' = FALSE
       ELSE UNCHANGED <<texture, updated>>
    /\ lastOp' = "draw"
    /\ UNCHANGED <<width, height, heap, buffer, history, historyIndex,
                   viewVars, inputVars, nDaubs, preStroke>>
    /\ NoFileStep
    /\ UNCHANGED dirty
    /\ brushCall' = NoCall

\* ---------------------------------------------------------- mouse actions

\* Whether the vector v, scaled by m, has integer coordinates.
Translatable(m, v) == \A i \in DOMAIN v : (m.sn * v[i]) % m.sd = 0

\* mat4.translate(m, m, v): the translation by v is applied before m, so m's
\* translation moves by v scaled by m.
TranslateImage(m, v) ==
    [m EXCEPT !.tx = @ + (m.sn * v[1]) \div m.sd,
              !.ty = @ + (m.sn * v[2]) \div m.sd]
TranslateMesh(m, v) ==
    [m EXCEPT !.tx = @ + (m.sn * v[1]) \div m.sd,
              !.ty = @ + (m.sn * v[2]) \div m.sd,
              !.tz = @ + (m.sn * v[3]) \div m.sd]

\* A pan that moves the image by the distance in UI space.
PanImageMatrixByUiDelta(position) ==
    IF displayType = "Texture"
    THEN TranslateImage(imageMatrix,
                        <<position[1] - eventState.lastMousePosition[1],
                          position[2] - eventState.lastMousePosition[2]>>)
    ELSE imageMatrix

\* handlePanMove(position), the matrices: in Texture mode the image moves
\* by the image-space distance from the last mouse position; in Mesh mode
\* the mesh moves by 0.005 times the distance from the last pan position,
\* y negated.
PanImageMatrix(position) ==
    IF displayType = "Texture"
    THEN LET a == uiToImageCoordinates(imageMatrix, position)
             b == uiToImageCoordinates(imageMatrix, eventState.lastMousePosition)
         IN  TranslateImage(imageMatrix, <<a[1] - b[1], a[2] - b[2]>>)
    ELSE imageMatrix

\* A pan that moves the mesh in both views.
PanMeshMatrixAlways(position) ==
    LET dx == position[1] - eventState.lastPanPosition[1]
        dy == position[2] - eventState.lastPanPosition[2]
    IN  TranslateMesh(meshMatrix, <<dx, -dy, 0>>)

PanMeshMatrix(position) ==
    IF displayType = "Mesh"
    THEN LET dx == position[1] - eventState.lastPanPosition[1]
             dy == position[2] - eventState.lastPanPosition[2]
         IN  TranslateMesh(meshMatrix, <<dx, -dy, 0>>)
    ELSE meshMatrix

\* Whether the pan to position is one whose arithmetic is exact.
PanExact(position) ==
    IF displayType = "Texture"
    THEN LET a == uiToImageCoordinates(imageMatrix, position)
             b == uiToImageCoordinates(imageMatrix, eventState.lastMousePosition)
         IN  /\ OnGrid(imageMatrix, position)
             /\ OnGrid(imageMatrix, eventState.lastMousePosition)
             /\ Translatable(imageMatrix, <<a[1] - b[1], a[2] - b[2]>>)
    ELSE Translatable(meshMatrix,
                      <<position[1] - eventState.lastPanPosition[1],
                        eventState.lastPanPosition[2] - position[2], 0>>)

\* Pans and zooms are offered while the matrices stay within MaxShift of
\* the origin and their scales within 1/MaxScale .. MaxScale.
MaxShift == 60
MaxScale == 4
InReach(im, mm) ==
    /\ Abs(im.tx) <= MaxShift /\ Abs(im.ty) <= MaxShift
    /\ Abs(mm.tx) <= MaxShift /\ Abs(mm.ty) <= MaxShift
    /\ im.sn <= MaxScale /\ im.sd <= MaxScale
    /\ mm.sn <= MaxScale /\ mm.sd <= MaxScale

\* ----------------------------------------------------------- wheel action
\* SCROLL_SCALE of the constants module, which turns a wheel delta into a
\* scale factor.
SCROLL_SCALE == 2

RECURSIVE GCD(_, _)
GCD(a, b) == IF b = 0 THEN a ELSE GCD(b, a % b)

\* A wheel delta is a fraction <<numerator, denominator>> with a positive
\* denominator.
\* A scale factor that keeps the sign of the delta.
ScaleFactorSigned(deltaY) == <<deltaY[1] * SCROLL_SCALE, deltaY[2]>>

\* handleWheel's scaleFactor as the fraction <<numerator, denominator>>:
\* 1 / (-deltaY * SCROLL_SCALE) for a negative delta, deltaY * SCROLL_SCALE
\* for a positive one.
ScaleFactor(deltaY) ==
    IF deltaY[1] < 0
    THEN <<deltaY[2], -deltaY[1] * SCROLL_SCALE>>
    ELSE <<deltaY[1] * SCROLL_SCALE, deltaY[2]>>

\* mat4.scale(m, m, [f, f, ...]): the scale of m is multiplied by f, its
\* translation stays.
ScaleMatrix(m, f) ==
    LET n == m.sn * f[1]
        d == m.sd * f[2]
        g == GCD(n, d)
    IN  [m EXCEPT !.sn = n \div g, !.sd = d \div g]

\* uiToMeshCoordinates([0, 0, 0]): the mesh-space point the projection
\* shows at the clip-space origin.
MeshMiddlePos == <<0, 0, 0>>

\* A zoom that scales about the origin of the image.
ZoomImageMatrixAboutOrigin(deltaY) == ScaleMatrix(imageMatrix, ScaleFactor(deltaY))

\* handleWheel, Texture mode: translate to the image point under the mouse,
\* scale, translate back.
ZoomImageMatrix(deltaY) ==
    LET imageMousePos == uiToImageCoordinates(imageMatrix, eventState.lastMousePosition)
        there == TranslateImage(imageMatrix, imageMousePos)
        scaled == ScaleMatrix(there, ScaleFactor(deltaY))
    IN  TranslateImage(scaled, <<-imageMousePos[1], -imageMousePos[2]>>)

\* handleWheel, Mesh mode: the same about the middle of the view.
ZoomMeshMatrix(deltaY) ==
    LET there == TranslateMesh(meshMatrix, MeshMiddlePos)
        scaled == ScaleMatrix(there, ScaleFactor(deltaY))
    IN  TranslateMesh(scaled, <<-MeshMiddlePos[1], -MeshMiddlePos[2], -MeshMiddlePos[3]>>)

\* Whether the zoom by deltaY about the mouse is one whose arithmetic is
\* exact.
ZoomExact(deltaY) ==
    IF displayType = "Texture"
    THEN LET imageMousePos == uiToImageCoordinates(imageMatrix, eventState.lastMousePosition)
         IN  /\ OnGrid(imageMatrix, eventState.lastMousePosition)
             /\ Translatable(ScaleMatrix(imageMatrix, ScaleFactor(deltaY)), imageMousePos)
    ELSE TRUE

\* How lastOp names a zoom: by the sign of its delta.
ZoomOps == {"zoomPositive", "zoomNegative"}

\* handleWheel(deltaY): nothing for a delta of 0, otherwise the matrix of
\* the view on display is scaled.
handleWheel(deltaY) ==
    /\ IF deltaY[1] # 0
       THEN /\ ZoomExact(deltaY)
            /\ imageMatrix' = IF displayType = "Texture"
                              THEN ZoomImageMatrix(deltaY) ELSE imageMatrix
            /\ meshMatrix' = IF displayType = "Mesh"
                             THEN ZoomMeshMatrix(deltaY) ELSE meshMatrix
            /\ InReach(imageMatrix', meshMatrix')
            /\ lastOp' = IF deltaY[1] > 0 THEN "zoomPositive" ELSE "zoomNegative"
       ELSE /\ UNCHANGED <<imageMatrix, meshMatrix>>
            /\ lastOp' = "wheelZero"
    /\ UNCHANGED <<displayVars, texture, displayType, inputVars, nDaubs, preStroke>>
    /\ NoFileStep
    /\ dirty' = TRUE
    /\ brushCall' = NoCall

\* The wheel events offered to the events module's handleWheel.
DOM_DELTA_PIXEL == 0
DOM_DELTA_LINE == 1
DOM_DELTA_PAGE == 2
ClientHeight == 100
WheelEvents ==
    { [deltaY |-> 100, deltaMode |-> DOM_DELTA_PIXEL],
      [deltaY |-> -100, deltaMode |-> DOM_DELTA_PIXEL],
      [deltaY |-> 0, deltaMode |-> DOM_DELTA_PIXEL],
      [deltaY |-> 3, deltaMode |-> DOM_DELTA_LINE],
      [deltaY |-> -3, deltaMode |-> DOM_DELTA_LINE],
      [deltaY |-> 1, deltaMode |-> DOM_DELTA_PAGE] }

\* The events module's handleWheel(e), the amount it passes on: deltaY / 100
\* for pixels, deltaY / 3 for lines, deltaY * clientHeight / 100 for pages.
WheelAmount(e) ==
    IF e.deltaMode = DOM_DELTA_PIXEL THEN <<e.deltaY, 100>>
    ELSE IF e.deltaMode = DOM_DELTA_LINE THEN <<e.deltaY, 3>>
    ELSE IF e.deltaMode = DOM_DELTA_PAGE THEN <<e.deltaY * ClientHeight, 100>>
    ELSE <<e.deltaY, 1>>

eventsHandleWheel(e) == handleWheel(WheelAmount(e))

\* The test of handleMouseDown and handleMouseUp for the pan gesture: the
\* middle button, or Alt with the left button down.
PanGesture(button, down, altKey) == button = 1 \/ (down[0] /\ altKey)

\* handleMouseDown(e): e.button and the position of e.
handleMouseDown(button, position) ==
    LET down == [eventState.mouseButtonsDown EXCEPT ![button] = TRUE]
        panStart == PanGesture(button, down, eventState.altKey)
        c == uiToImageCoordinates(imageMatrix, eventState.lastMousePosition)
    IN  /\ button = 0 => (nDaubs < MaxDaubs
                            /\ OnGrid(imageMatrix, eventState.lastMousePosition))
        /\ eventState' = [eventState EXCEPT
                              !.mouseButtonsDown = down,
                              !.pan = IF panStart THEN TRUE ELSE @,
                              !.lastPanPosition = IF panStart THEN position ELSE @]
        /\ IF button = 0
           THEN /\ SetDisplay(startStroke(Display, width, c, MousePressure))
                /\ brushStroking' = StrokingAfterStart(brushStroking)
                /\ brushCall' = BrushCall("startStroke", c, MousePressure,
                                          "mouse", position)
                /\ nDaubs' = nDaubs + 1
                /\ preStroke' = Live(Display)
                /\ lastOp' = "strokeStart"
           ELSE /\ UNCHANGED <<heap, buffer, history, historyIndex, updated,
                               brushStroking, nDaubs, preStroke>>
                /\ brushCall' = NoCall
                /\ lastOp' = "mouseDown"
        /\ UNCHANGED <<width, height, texture, viewVars>>
        /\ NoFileStep
        /\ dirty' = TRUE

\* handleMouseUp(e): e.button.
handleMouseUp(button) ==
    LET down == [eventState.mouseButtonsDown EXCEPT ![button] = FALSE]
        panStop == PanGesture(button, down, eventState.altKey)
        finish == ~panStop /\ button = 0
        c == uiToImageCoordinates(imageMatrix, eventState.lastMousePosition)
    IN  /\ (finish /\ brushStroking)
               => /\ nDaubs < MaxDaubs
                  /\ historyIndex < MaxHistory
                  /\ OnGrid(imageMatrix, eventState.lastMousePosition)
        /\ eventState' = [eventState EXCEPT
                              !.mouseButtonsDown = down,
                              !.pan = IF panStop THEN FALSE ELSE @]
        /\ IF finish
           THEN /\ SetDisplay(Tidy(finishStroke(Display, brushStroking, width, c, MousePressure)))
                /\ brushStroking' = StrokingAfterFinish(brushStroking)
                /\ brushCall' = BrushCall("finishStroke", c, MousePressure,
                                          "mouse", NoPosition)
                /\ nDaubs' = IF brushStroking THEN nDaubs + 1 ELSE nDaubs
                /\ preStroke' = <<>>
                /\ lastOp' = IF brushStroking THEN "strokeFinish" ELSE "mouseUp"
           ELSE /\ UNCHANGED <<heap, buffer, history, historyIndex, updated,
                               brushStroking, nDaubs, preStroke>>
                /\ brushCall' = NoCall
                /\ lastOp' = "mouseUp"
        /\ UNCHANGED <<width, height, texture, viewVars>>
        /\ NoFileStep
        /\ dirty' = TRUE

\* handleMouseMove(e): the position of e.
handleMouseMove(position) ==
    LET down == eventState.mouseButtonsDown
        panMove == down[1] \/ (down[0] /\ eventState.altKey)
        continue == ~panMove /\ down[0]
        c == uiToImageCoordinates(imageMatrix, position)
    IN  /\ (continue /\ brushStroking)
               => (nDaubs < MaxDaubs /\ OnGrid(imageMatrix, position))
        /\ IF panMove
           THEN /\ PanExact(position)
                /\ imageMatrix' = PanImageMatrix(position)
                /\ meshMatrix' = PanMeshMatrix(position)
                /\ InReach(imageMatrix', meshMatrix')
                /\ eventState' = [eventState EXCEPT !.lastPanPosition = position,
                                                    !.lastMousePosition = position]
                /\ UNCHANGED <<heap, buffer, history, historyIndex, updated, nDaubs>>
                /\ brushCall' = NoCall
                /\ lastOp' = "panMove"
           ELSE /\ UNCHANGED <<imageMatrix, meshMatrix>>
                /\ eventState' = [eventState EXCEPT !.lastMousePosition = position]
                /\ IF continue
                   THEN /\ SetDisplay(continueStroke(Display, brushStroking, width,
                                                     c, MousePressure))
                        /\ brushCall' = BrushCall("continueStroke", c, MousePressure,
                                                  "mouse", position)
                        /\ nDaubs' = IF brushStroking THEN nDaubs + 1 ELSE nDaubs
                        /\ lastOp' = IF brushStroking THEN "strokeContinue" ELSE "mouseMove"
                   ELSE /\ UNCHANGED <<heap, buffer, history, historyIndex, updated, nDaubs>>
                        /\ brushCall' = NoCall
                        /\ lastOp' = "mouseMove"
        /\ UNCHANGED <<width, height, texture, displayType, brushStroking, preStroke>>
        /\ NoFileStep
        /\ dirty' = TRUE

\* -------------------------------------------------------- pointer actions
\* A PointerEvent after Widget has made its position relative to the
\* widget: its pointerType, its position and its pressure in tenths.
PointerEvent(pointerType, position, pressure) ==
    [pointerType |-> pointerType, position |-> position, pressure |-> pressure]

\* handlePointerDown(e): the stroke starts at the last pointer position,
\* with the pressure of e.
handlePointerDown(e) ==
    LET c == uiToImageCoordinates(imageMatrix, eventState.lastPointerPosition)
    IN  /\ nDaubs < MaxDaubs
        /\ OnGrid(imageMatrix, eventState.lastPointerPosition)
        /\ SetDisplay(startStroke(Display, width, c, e.pressure))
        /\ brushStroking' = StrokingAfterStart(brushStroking)
        /\ brushCall' = BrushCall("startStroke", c, e.pressure,
                                  e.pointerType, e.position)
        /\ eventState' = [eventState EXCEPT !.pointerDown = TRUE,
                                            !.lastPressure = e.pressure]
        /\ nDaubs' = nDaubs + 1
        /\ preStroke' = Live(Display)
        /\ lastOp' = "strokeStart"
        /\ UNCHANGED <<width, height, texture, viewVars>>
        /\ NoFileStep
        /\ dirty' = TRUE

\* handlePointerUp(e): the stroke finishes at the last pointer position,
\* with the last pressure.
handlePointerUp(e) ==
    LET c == uiToImageCoordinates(imageMatrix, eventState.lastPointerPosition)
    IN  /\ brushStroking
               => /\ nDaubs < MaxDaubs
                  /\ historyIndex < MaxHistory
                  /\ OnGrid(imageMatrix, eventState.lastPointerPosition)
        /\ SetDisplay(Tidy(finishStroke(Display, brushStroking, width, c,
                                        eventState.lastPressure)))
        /\ brushStroking' = StrokingAfterFinish(brushStroking)
        /\ brushCall' = BrushCall("finishStroke", c, eventState.lastPressure,
                                  e.pointerType, e.position)
        /\ eventState' = [eventState EXCEPT !.pointerDown = FALSE]
        /\ nDaubs' = IF brushStroking THEN nDaubs + 1 ELSE nDaubs
        /\ preStroke' = <<>>
        /\ lastOp' = IF brushStroking THEN "strokeFinish" ELSE "pointerUp"
        /\ UNCHANGED <<width, height, texture, viewVars>>
        /\ NoFileStep
        /\ dirty' = TRUE

\* handlePointerMove(e): the position and the pressure of e.
handlePointerMove(e) ==
    LET continue == eventState.pointerDown
        c == uiToImageCoordinates(imageMatrix, e.position)
    IN  /\ (continue /\ brushStroking)
               => (nDaubs < MaxDaubs /\ OnGrid(imageMatrix, e.position))
        /\ IF continue
           THEN /\ SetDisplay(continueStroke(Display, brushStroking, width, c,
                                             e.pressure))
                /\ brushCall' = BrushCall("continueStroke", c, e.pressure,
                                          e.pointerType, e.position)
                /\ nDaubs' = IF brushStroking THEN nDaubs + 1 ELSE nDaubs
                /\ lastOp' = IF brushStroking THEN "strokeContinue" ELSE "pointerMove"
           ELSE /\ UNCHANGED <<heap, buffer, history, historyIndex, updated, nDaubs>>
                /\ brushCall' = NoCall
                /\ lastOp' = "pointerMove"
        /\ eventState' = [eventState EXCEPT !.lastPointerPosition = e.position,
                                            !.lastPressure = e.pressure]
        /\ UNCHANGED <<width, height, texture, viewVars, brushStroking, preStroke>>
        /\ NoFileStep
        /\ dirty' = TRUE

\* Widget's pointerHandler(fn) (Widget.tsx), what it hands to fn: the event
\* with pressure 1.0 when its pointerType is 'mouse'.
pointerHandler(e) ==
    IF e.pointerType = "mouse" THEN [e EXCEPT !.pressure = MousePressure] ELSE e

\* show2d() / show3d(): the view switch.
show2d ==
    /\ displayType' = "Texture"
    /\ lastOp' = "show2d"
    /\ UNCHANGED <<displayVars, texture, imageMatrix, meshMatrix, inputVars, nDaubs, preStroke>>
    /\ NoFileStep
    /\ UNCHANGED dirty
    /\ brushCall' = NoCall

show3d ==
    /\ displayType' = "Mesh"
    /\ lastOp' = "show3d"
    /\ UNCHANGED <<displayVars, texture, imageMatrix, meshMatrix, inputVars, nDaubs, preStroke>>
    /\ NoFileStep
    /\ UNCHANGED dirty
    /\ brushCall' = NoCall

\* ------------------------------------------------------ file-open actions
\* What a step that touches neither the pixels nor the view leaves alone.
NoDisplayStep ==
    UNCHANGED <<width, height, heap, buffer, history, historyIndex, texture,
                viewVars, brushStroking, nDaubs, preStroke>>

\* The key-up events offered to the handleKeyup handlers.
KeyupEvents ==
    { [keyCode |-> 79, isComposing |-> FALSE, key |-> "o"],
      [keyCode |-> 79, isComposing |-> TRUE, key |-> "o"],
      [keyCode |-> 229, isComposing |-> FALSE, key |-> "Process"],
      [keyCode |-> 18, isComposing |-> FALSE, key |-> "Alt"] }

\* ImageDisplay.handleKeyup(e): 'O' opens the file dialog and adds a
\* 'change' listener to the file selector; Alt releases the pan modifier.
handleKeyup(e) ==
    /\ IF e.isComposing \/ e.keyCode = 229
       THEN UNCHANGED <<listeners, eventState>>
       ELSE /\ e.keyCode = 79 => listeners.display + listeners.events < MaxListeners
            /\ listeners' = IF e.keyCode = 79
                            THEN [listeners EXCEPT !.display = @ + 1]
                            ELSE listeners
            /\ eventState' = IF e.key = "Alt"
                             THEN [eventState EXCEPT !.altKey = FALSE]
                             ELSE eventState
    /\ lastOp' = "keyup"
    /\ thrown' = {}
    /\ UNCHANGED rendererError
    /\ UNCHANGED appVars
    /\ dirty' = TRUE
    /\ brushCall' = NoCall
    /\ UNCHANGED <<updated, reads, decodes, mesh, wmMesh, lastLoad>>
    /\ NoDisplayStep

\* The events module's handleKeyup(e): 'O' opens the file dialog and adds
\* its own 'change' listener to the same file selector.
eventsHandleKeyup(e) ==
    /\ IF e.isComposing \/ e.keyCode = 229
       THEN UNCHANGED listeners
       ELSE /\ e.keyCode = 79 => listeners.display + listeners.events < MaxListeners
            /\ listeners' = IF e.keyCode = 79
                            THEN [listeners EXCEPT !.events = @ + 1]
                            ELSE listeners
    /\ lastOp' = "keyup"
    /\ thrown' = {}
    /\ UNCHANGED rendererError
    /\ UNCHANGED appVars
    /\ dirty' = TRUE
    /\ brushCall' = NoCall
    /\ UNCHANGED <<updated, eventState, reads, decodes, mesh, wmMesh, lastLoad>>
    /\ NoDisplayStep

\* Renderer (texpaint.tsx): whether it renders the canvas and its children,
\* TopBar among them, rather than the error panel.
CanvasRendered == rendererError = "none"

\* Renderer's listener of the window's 'error' event: every error a
\* listener throws and nobody catches is stored with setError, the last one
\* stays.
windowOnError(messages) ==
    IF messages = {}
    THEN UNCHANGED rendererError
    ELSE rendererError' \in messages

\* One run of the 'change' listener ImageDisplay.handleKeyup adds: an image
\* or a .obj file is handed to a FileReader, anything else throws.
DisplayListenerReads(file) == IsImage(file) \/ IsObj(file)
DisplayListenerThrows(file) ==
    IF IsImage(file) \/ IsObj(file) THEN {} ELSE {"unsupported file format"}

\* One run of the 'change' listener the events module adds: anything but an
\* image throws, an image is handed to a FileReader.
EventsListenerReads(file) == IsImage(file)
EventsListenerThrows(file) ==
    IF ~IsImage(file) THEN {"file is not an image"} ELSE {}

\* How lastOp names a selection in the dialog of #file-selector and one in
\* the dialog of TopBar's input.
SelectOp(file) ==
    IF IsImage(file) THEN "selectImage"
    ELSE IF IsObj(file) THEN "selectObj" ELSE "selectUnsupported"
OpenOp(file) ==
    IF IsImage(file) THEN "openImage"
    ELSE IF IsObj(file) THEN "openObj" ELSE "openUnsupported"

\* The user picks a file in the dialog of #file-selector: the 'change'
\* event runs every listener registered on it.
selectFile(file) ==
    LET nd == IF DisplayListenerReads(file) THEN listeners.display ELSE 0
        ne == IF EventsListenerReads(file) THEN listeners.events ELSE 0
    IN  /\ listeners.display + listeners.events > 0
        /\ InFlight + nd + ne <= MaxInFlight
        /\ reads' = reads (+) Copies([via |-> "display", file |-> file], nd)
                          (+) Copies([via |-> "events", file |-> file], ne)
        /\ thrown' = (IF listeners.display > 0 THEN DisplayListenerThrows(file) ELSE {})
                        \cup (IF listeners.events > 0 THEN EventsListenerThrows(file) ELSE {})
        /\ windowOnError(thrown')
        /\ UNCHANGED appVars
        /\ UNCHANGED dirty
        /\ brushCall' = NoCall
        /\ lastOp' = SelectOp(file)
        /\ UNCHANGED <<updated, eventState, listeners, decodes, mesh, wmMesh, lastLoad>>
        /\ NoDisplayStep

\* TopBar.handleOpen (texpaint.tsx), the handler of the Open button, which
\* is there while Renderer renders its children: a fresh file input with
\* one 'change' listener, and the user picks a file in its dialog.
handleOpen(file) ==
    LET n == IF IsImage(file) \/ IsObj(file) THEN 1 ELSE 0
    IN  /\ CanvasRendered
        /\ InFlight + n <= MaxInFlight
        /\ reads' = reads (+) Copies([via |-> "topbar", file |-> file], n)
        /\ thrown' = IF IsImage(file) \/ IsObj(file) THEN {}
                      ELSE {"unsupported file format"}
        /\ windowOnError(thrown')
        /\ UNCHANGED appVars
        /\ UNCHANGED dirty
        /\ brushCall' = NoCall
        /\ lastOp' = OpenOp(file)
        /\ UNCHANGED <<updated, eventState, listeners, decodes, mesh, wmMesh, lastLoad>>
        /\ NoDisplayStep

\* reader.onload of a read in flight: an image goes to load(), which starts
\* a decode; a mesh goes to setMesh() (ImageDisplay) or to
\* windowManager.mesh (TopBar).
readerOnload(r) ==
    /\ r \in BagToSet(reads)
    /\ reads' = reads (-) Copies(r, 1)
    /\ IF IsImage(r.file)
       THEN /\ decodes' = decodes (+) Copies(r.file.content, 1)
            /\ lastLoad' = r.file.content
            /\ UNCHANGED <<mesh, wmMesh, updated>>
            /\ lastOp' = "load"
       ELSE /\ IF r.via = "topbar"
               THEN wmMesh' = r.file.content /\ UNCHANGED <<mesh, updated>>
               ELSE mesh' = r.file.content /\ updated' = TRUE /\ UNCHANGED wmMesh
            /\ UNCHANGED <<decodes, lastLoad>>
            /\ lastOp' = "setMesh"
    /\ thrown' = {}
    /\ UNCHANGED rendererError
    /\ UNCHANGED appVars
    /\ dirty' = (dirty \/ r.via = "topbar")
    /\ brushCall' = NoCall
    /\ UNCHANGED <<eventState, listeners>>
    /\ NoDisplayStep

\* resetImageTransform() that leaves the history alone.
resetHistoryKeeping(d) == d

\* resetImageTransform(), the history: emptied, the cursor at 0.
resetHistory(d) == [d EXCEPT !.history = <<>>, !.historyIndex = 0]

\* load(url): an img element starts decoding the image behind url.
load(img) ==
    /\ decodes' = decodes (+) Copies(img, 1)
    /\ lastLoad' = img
    /\ lastOp' = "load"
    /\ thrown' = {}
    /\ UNCHANGED rendererError
    /\ UNCHANGED appVars
    /\ UNCHANGED dirty
    /\ brushCall' = NoCall
    /\ UNCHANGED <<updated, eventState, listeners, reads, mesh, wmMesh>>
    /\ NoDisplayStep

\* The 'load' listener of load()'s img element without its markDirty().
imageOnloadQuiet(img) ==
    LET imageData == ImageData(img)
        data == NewRef(heap)
        loaded == resetHistory(
                      markUpdate([Display EXCEPT
                                      !.heap = Store(heap, data, imageData.data),
                                      !.buffer = data]))
    IN  /\ img \in BagToSet(decodes)
        /\ decodes' = decodes (-) Copies(img, 1)
        /\ SetDisplay(Tidy(loaded))
        /\ width' = imageData.width
        /\ height' = imageData.height
        /\ imageMatrix' = ResetImageMatrix(imageData.width, imageData.height)
        /\ meshMatrix' = ResetMeshMatrix
        /\ lastOp' = IF history # <<>> THEN "loadedOverHistory" ELSE "loaded"
        /\ thrown' = {}
        /\ UNCHANGED rendererError
        /\ UNCHANGED appVars
        /\ UNCHANGED dirty
        /\ brushCall' = NoCall
        /\ UNCHANGED <<texture, displayType, inputVars, listeners, reads, mesh, wmMesh,
                       nDaubs, preStroke, lastLoad>>

\* The 'load' listener of load()'s img element: the decoded image becomes
\* the buffer, with its width and height; markUpdate(); and
\* resetImageTransform() resets both matrices and the history. lastOp tells
\* a completion that found snapshots in history from one that found none.
imageOnload(img) ==
    LET imageData == ImageData(img)
        data == NewRef(heap)
        loaded == resetHistory(
                      markUpdate([Display EXCEPT
                                      !.heap = Store(heap, data, imageData.data),
                                      !.buffer = data]))
    IN  /\ img \in BagToSet(decodes)
        /\ decodes' = decodes (-) Copies(img, 1)
        /\ SetDisplay(Tidy(loaded))
        /\ width' = imageData.width
        /\ height' = imageData.height
        /\ imageMatrix' = ResetImageMatrix(imageData.width, imageData.height)
        /\ meshMatrix' = ResetMeshMatrix
        /\ lastOp' = IF history # <<>> THEN "loadedOverHistory" ELSE "loaded"
        /\ thrown' = {}
        /\ UNCHANGED rendererError
        /\ UNCHANGED appVars
        /\ dirty' = TRUE
        /\ brushCall' = NoCall
        /\ UNCHANGED <<texture, displayType, inputVars, listeners, reads, mesh, wmMesh,
                       nDaubs, preStroke, lastLoad>>

\* ------------------------------------------------------- view buttons
\* TopBar's "2D Texture" button (texpaint.tsx), there while Renderer
\* renders its children: on2d is () => setShowTexture(!showTexture).
on2d ==
    /\ CanvasRendered
    /\ showTexture' = ~showTexture
    /\ lastOp' = "on2d"
    /\ thrown' = {}
    /\ UNCHANGED <<displayVars, texture, viewVars, inputVars, nDaubs, preStroke, lastLoad,
                   showMesh, listeners, reads, decodes, mesh, wmMesh,
                   rendererError, dirty>>
    /\ brushCall' = NoCall

\* TopBar's "3D Object" button: on3d is () => setShowMesh(!showMesh).
on3d ==
    /\ CanvasRendered
    /\ showMesh' = ~showMesh
    /\ lastOp' = "on3d"
    /\ thrown' = {}
    /\ UNCHANGED <<displayVars, texture, viewVars, inputVars, nDaubs, preStroke, lastLoad,
                   showTexture, listeners, reads, decodes, mesh, wmMesh,
                   rendererError, dirty>>
    /\ brushCall' = NoCall

\* --------------------------------------------------------- render loop
\* One frame of the render loop: dirty() returns the flag and clears it,
\* and the frame calls draw() when it was set.
frame ==
    /\ dirty' = FALSE
    /\ IF dirty /\ updated
       THEN texture' = <<Bytes(heap, buffer), width>> /\ updated' = FALSE
       ELSE UNCHANGED <<texture, updated>>
    /\ lastOp' = IF dirty THEN "frameDraw" ELSE "frame"
    /\ UNCHANGED <<width, height, heap, buffer, history, historyIndex,
                   viewVars, inputVars, nDaubs, preStroke>>
    /\ NoFileStep
    /\ brushCall' = NoCall

\* ------------------------------------------------------------ the system
\* A painting session: strokes with the left button, the history keys,
\* checkpoint(), load() of an image of another size (one load at a time).
PaintPositions == {<<2, 2>>, <<60, 2>>}
HistoryKeys == {e \in KeydownEvents : e.key # "Alt"}

Next ==
    \/ Checkpoint
    \/ \E e \in HistoryKeys : handleKeydown(e)
    \/ \E p \in PaintPositions : handleMouseDown(0, p)
    \/ handleMouseUp(0)
    \/ \E p \in PaintPositions : handleMouseMove(p)
    \/ InFlight = 0 /\ load("B")
    \/ \E img \in Images : imageOnload(img)

Spec == Init /\ [][Next]_vars

\* A viewing session: pans with the middle button in both views, the view
\* switch, checkpoint() and the history keys, and load() of an image (one
\* load at a time).
ViewPositions == {<<2, 2>>, <<60, 2>>}

NextView ==
    \/ Checkpoint
    \/ \E e \in HistoryKeys : handleKeydown(e)
    \/ \E p \in ViewPositions : handleMouseDown(1, p)
    \/ handleMouseUp(1)
    \/ \E p \in ViewPositions : handleMouseMove(p)
    \/ show2d
    \/ show3d
    \/ InFlight = 0 /\ load("B")
    \/ \E img \in Images : imageOnload(img)

SpecView == Init /\ [][NextView]_vars

\* The history under the render loop: checkpoint() and the history keys,
\* strokes of single clicks, load() of an image, and draw().
ClickPosition == <<2, 2>>

NextHistory ==
    \/ Checkpoint
    \/ \E e \in HistoryKeys : handleKeydown(e)
    \/ handleMouseDown(0, ClickPosition)
    \/ handleMouseUp(0)
    \/ InFlight = 0 /\ load("B")
    \/ \E img \in Images : imageOnload(img)
    \/ draw

SpecHistory == Init /\ [][NextHistory]_vars

\* Input events: strokes with the left button, pans with the middle
\* button, the wheel, the view switch, Ctrl+Z and draw().
InputPosition == <<2, 2>>
UndoKeys == {k \in HistoryKeys : KeydownIntent(k) = "undo"}

NextInput ==
    \/ \E b \in {0, 1} : handleMouseDown(b, InputPosition)
    \/ \E b \in {0, 1} : handleMouseUp(b)
    \/ handleMouseMove(InputPosition)
    \/ \E e \in WheelEvents : eventsHandleWheel(e)
    \/ show2d
    \/ show3d
    \/ \E e \in UndoKeys : handleKeydown(e)
    \/ draw

SpecInput == Init /\ [][NextInput]_vars

\* Strokes with the left button and with a pen, mixed, and Ctrl+Z.
PenPressures == {5, 10}

NextPen ==
    \/ handleMouseDown(0, InputPosition)
    \/ handleMouseUp(0)
    \/ handleMouseMove(InputPosition)
    \/ \E pr \in PenPressures : handlePointerDown(PointerEvent("pen", InputPosition, pr))
    \/ handlePointerUp(PointerEvent("pen", InputPosition, 0))
    \/ \E pr \in PenPressures : handlePointerMove(PointerEvent("pen", InputPosition, pr))
    \/ \E e \in UndoKeys : handleKeydown(e)

SpecPen == Init /\ [][NextPen]_vars

\* Daubs: strokes with the left button at positions whose discs cover the
\* image, a part of it or none of it, before and after load() of the wide
\* image.
DaubPositions == {<<2, 2>>, <<41, 11>>, <<42, 2>>}

NextDaub ==
    \/ \E p \in DaubPositions : handleMouseDown(0, p)
    \/ handleMouseUp(0)
    \/ \E p \in DaubPositions : handleMouseMove(p)
    \/ InFlight = 0 /\ load("B")
    \/ \E img \in Images : imageOnload(img)

SpecDaub == Init /\ [][NextDaub]_vars

\* Pans and zooms of the Texture view: the middle button, mouse moves and
\* the wheel.
ZoomPositions == {<<2, 2>>, <<6, 4>>}

NextZoom ==
    \/ \E p \in ZoomPositions : handleMouseDown(1, p)
    \/ handleMouseUp(1)
    \/ \E p \in ZoomPositions : handleMouseMove(p)
    \/ \E e \in WheelEvents : eventsHandleWheel(e)

SpecZoom == Init /\ [][NextZoom]_vars

\* Pans and zooms in both views over a history: the middle button pressed
\* at two positions, moves (until the mesh has been panned), the wheel, the
\* view switch, checkpoint() and Ctrl+Z.
FramePositions == {<<2, 2>>, <<6, 2>>}

NextFrame ==
    \/ \E p \in FramePositions : handleMouseDown(1, p)
    \/ handleMouseUp(1)
    \/ meshMatrix.tx = 0 /\ handleMouseMove(InputPosition)
    \/ \E e \in WheelEvents : eventsHandleWheel(e)
    \/ show2d
    \/ show3d
    \/ Checkpoint
    \/ \E e \in UndoKeys : handleKeydown(e)

SpecFrame == Init /\ [][NextFrame]_vars

\* Opening files: the 'O' key of both handleKeyup handlers, a selection in
\* the dialog of #file-selector, TopBar's Open button, the FileReader, the
\* image decoder (up to MaxInFlight reads and decodes at once) and the
\* render loop.
NextFiles ==
    \/ \E e \in KeyupEvents : handleKeyup(e)
    \/ \E e \in KeyupEvents : eventsHandleKeyup(e)
    \/ \E f \in Files : selectFile(f)
    \/ \E f \in Files : handleOpen(f)
    \/ \E r \in BagToSet(reads) : readerOnload(r)
    \/ \E img \in Images : imageOnload(img)
    \/ draw

SpecFiles == Init /\ [][NextFiles]_vars

\* ===================================================================
\* Properties
\* ===================================================================
\* n calls of undo(), and n calls of redo(), from d.
RECURSIVE UndoTimes(_, _)
UndoTimes(d, n) == IF n = 0 THEN d ELSE Tidy(undo(UndoTimes(d, n - 1)))

RECURSIVE RedoTimes(_, _)
RedoTimes(d, n) == IF n = 0 THEN d ELSE Tidy(redo(RedoTimes(d, n - 1)))

\* C1: from every reachable state, with historyIndex = k, k calls of undo()
\* reach historyIndex 0, and the k calls of redo() that follow show the live
\* buffers of the undo pass in reverse order, byte for byte, ending with the
\* live buffer and the historyIndex the pass began with.
UndoRedoRoundTrip ==
    LET k == historyIndex
        bottom == UndoTimes(Display, k)
    IN  /\ bottom.historyIndex = 0
        /\ \A j \in 0..k :
               /\ Live(RedoTimes(bottom, j)) = Live(UndoTimes(Display, k - j))
               /\ RedoTimes(bottom, j).historyIndex = j

\* A state two snapshots deep that a redo() has just brought back to the
\* top, whose undo pass shows three different buffers.
UndoRedoRoundTripWitness ==
    /\ lastOp = "redo"
    /\ historyIndex = 2
    /\ Len(history) = 3
    /\ Live(Display) # Live(UndoTimes(Display, 1))
    /\ Live(UndoTimes(Display, 1)) # Live(UndoTimes(Display, 2))
    /\ Live(Display) # Live(UndoTimes(Display, 2))

\* The contents of the snapshots in history, in order.
Snapshots(d) == [i \in 1..Len(d.history) |-> Bytes(d.heap, d.history[i])]

\* C2, as the specification states it: with snapshots A, B, C (all
\* different) taken by three calls of checkpoint() and C still live, two
\* calls of undo() leave A live, a redo() leaves B live, a checkpoint() then
\* leaves no snapshot holding C, and a further redo() changes nothing.
ThreeCheckpointScenario ==
    LET A == Bytes(heap, history[1])
        B == Bytes(heap, history[2])
        C == Bytes(heap, history[3])
        undone == UndoTimes(Display, 2)
        redone == Tidy(redo(undone))
        cut == Tidy(checkpoint(redone))
    IN  (/\ Len(history) = 3 /\ historyIndex = 3
         /\ A # B /\ B # C /\ A # C
         /\ Live(Display) = C)
        => /\ Live(undone) = A
           /\ Live(redone) = B
           /\ \A i \in 1..Len(cut.history) : Snapshots(cut)[i] # C
           /\ Tidy(redo(cut)) = cut

\* Whether redo() would change nothing.
RedoIsNoOp == redo(Display) = Display

\* C3: a checkpoint() called with historyIndex < history.length keeps the
\* snapshots below historyIndex, drops the others, appends one copy of the
\* live buffer and leaves historyIndex = history.length; after it redo()
\* changes nothing, and that stays so through every step but an undo().
CheckpointCutsRedo ==
    [][/\ (lastOp' \in {"checkpointCut", "strokeFinish"} /\ historyIndex < Len(history))
          => /\ Len(history') = historyIndex + 1
             /\ historyIndex' = Len(history')
             /\ \A i \in 1..historyIndex :
                    Bytes(heap', history'[i]) = Bytes(heap, history[i])
             /\ Bytes(heap', history'[historyIndex + 1]) = Bytes(heap', buffer')
             /\ history'[historyIndex + 1] # buffer'
       /\ lastOp' \in {"checkpoint", "checkpointCut", "strokeFinish"} => RedoIsNoOp'
       /\ (RedoIsNoOp /\ lastOp' # "undo") => RedoIsNoOp'
      ]_vars

\* A checkpoint() has just cut a redo tail of two snapshots off.
CheckpointCutsRedoWitness ==
    /\ lastOp = "checkpointCut"
    /\ historyIndex = 1
    /\ Len(history) = 1
    /\ nDaubs >= 2

\* C4, as the specification states it: when a stroke finishes, one undo()
\* makes the live buffer equal to what it was just before the stroke-start.
UndoRestoresPreStroke ==
    [][lastOp' = "strokeFinish"
          => Live(Tidy(undo(Display'))) = preStroke]_vars

\* C5: undo() at historyIndex 0 and redo() with no snapshot after the cursor
\* change neither the heap, the live buffer, the history, historyIndex nor
\* updated, and throw nothing.
HistoryEdgesAreNoOps ==
    [][/\ (lastOp' = "undo" /\ historyIndex = 0)
          => (UNCHANGED <<heap, buffer, history, historyIndex, updated>> /\ thrown' = {})
       /\ (lastOp' = "redo" /\ historyIndex >= Len(history) - 1)
          => (UNCHANGED <<heap, buffer, history, historyIndex, updated>> /\ thrown' = {})
      ]_vars

\* After strokes, an undo(), a redo() and a draw(), a redo() on the last
\* snapshot has left updated false.
HistoryEdgesAreNoOpsWitness ==
    /\ lastOp = "redo"
    /\ ~updated
    /\ Len(history) = 3
    /\ historyIndex = 2
    /\ nDaubs >= 2
    /\ texture[1] = Live(Display)

\* C6: 0 <= historyIndex <= history.length, every slot of history holds a
\* snapshot, and the live buffer is defined.
HistoryWellFormed ==
    /\ 0 <= historyIndex /\ historyIndex <= Len(history)
    /\ \A i \in 1..Len(history) : history[i] # Undefined /\ history[i] \in DOMAIN heap
    /\ buffer # Undefined /\ buffer \in DOMAIN heap

\* After a load, strokes and checkpoints, an undo() has left snapshots on
\* both sides of the cursor.
HistoryWellFormedWitness ==
    /\ lastOp = "undo"
    /\ width = 3
    /\ historyIndex = 1
    /\ Len(history) = 3

\* C7: the live buffer holds width * height * 4 bytes, and so does every
\* snapshot undo() or redo() could install.
BufferMatchesDimensions ==
    /\ Len(Bytes(heap, buffer)) = width * height * 4
    /\ \A i \in 1..Len(history) : Len(Bytes(heap, history[i])) = width * height * 4

\* After an image of another size was loaded, an undo() has installed a
\* snapshot.
BufferMatchesDimensionsWitness ==
    /\ lastOp = "undo"
    /\ width = 3
    /\ historyIndex = 1
    /\ Len(history) >= 2
    /\ Len(Bytes(heap, buffer)) = 12

\* The values of lastOp after a completed load.
LoadedOps == {"loaded", "loadedOverHistory"}

\* C8: the step that completes a load installs the decoded image with its
\* width and height, centres the image matrix on the canvas, puts the mesh
\* matrix back at z = -6, empties the history with historyIndex 0 and sets
\* updated; undo() and redo() change nothing in the state it leaves.
LoadCompletionResets ==
    [][lastOp' \in LoadedOps
          => /\ \E img \in BagToSet(decodes) :
                    /\ Bytes(heap', buffer') = ImageData(img).data
                    /\ width' = ImageData(img).width
                    /\ height' = ImageData(img).height
             /\ 2 * imageMatrix'.tx + width' = CanvasSize[1]
             /\ 2 * imageMatrix'.ty + height' = CanvasSize[2]
             /\ imageMatrix'.sn = imageMatrix'.sd
             /\ meshMatrix' = [tx |-> 0, ty |-> 0, tz |-> -6 * MeshUnit,
                               sn |-> 1, sd |-> 1]
             /\ history' = <<>>
             /\ historyIndex' = 0
             /\ updated'
             /\ undo(Display') = Display'
             /\ redo(Display') = Display'
      ]_vars

\* A load has completed over a history of snapshots, in the Mesh view and
\* in the middle of a pan.
LoadCompletionResetsWitness ==
    /\ lastOp = "loadedOverHistory"
    /\ displayType = "Mesh"
    /\ eventState.pan
    /\ eventState.lastPanPosition = <<60, 2>>

\* C9, as the specification states it: once no read and no decode is in
\* flight any more, the surface holds the image of the last load() call.
LatestLoadWins ==
    (lastOp \in LoadedOps /\ InFlight = 0)
        => /\ lastLoad \in Images
           /\ Live(Display) = ImageData(lastLoad).data
           /\ width = ImageData(lastLoad).width
           /\ height = ImageData(lastLoad).height

\* The frame of C10: no read and no decode is started, and the buffer, the
\* dimensions, the history, the matrices and the meshes keep their values.
SelectionMutatesNothing ==
    UNCHANGED <<reads, decodes, displayVars, imageMatrix, meshMatrix, mesh, wmMesh>>

\* C10, as the specification states it: selecting a file that is neither an
\* image nor a .obj mesh throws 'unsupported file format' and mutates
\* nothing.
UnsupportedFileRejected ==
    [][lastOp' \in {"selectUnsupported", "openUnsupported"}
          => (thrown' = {"unsupported file format"} /\ SelectionMutatesNothing)]_vars

\* C11, as the specification states it: after a selection has thrown the
\* unsupported-format error, Renderer still renders the canvas and its
\* controls, so that TopBar's Open can load a valid image afterwards.
ErrorsAreNotFatal ==
    [][lastOp' \in {"selectUnsupported", "openUnsupported"} => CanvasRendered']_vars

\* C12: a continueStroke or a finishStroke called while no stroke is open (a
\* left-button mouse-up or a pointer-up with no down before it, a move with
\* the button or the pen still down after the stroke has finished) changes
\* neither the heap, the live buffer, the history nor historyIndex, leaves
\* the brush Idle and throws nothing.
IdleStrokeEventsAreNoOps ==
    [][(/\ ~brushStroking
        /\ \/ lastOp' \in {"mouseUp", "pointerUp"}
           \/ lastOp' = "mouseMove" /\ eventState.mouseButtonsDown[0]
           \/ lastOp' = "pointerMove" /\ eventState.pointerDown)
          => /\ UNCHANGED <<heap, buffer, history, historyIndex>>
             /\ ~brushStroking'
             /\ thrown' = {}
      ]_vars

\* A pointer-up has arrived after the left button's mouse-up had already
\* finished the pen's stroke.
IdleStrokeEventsAreNoOpsWitness ==
    /\ lastOp = "pointerUp"
    /\ ~eventState.pointerDown
    /\ eventState.lastPressure = 5
    /\ Len(history) = 1
    /\ historyIndex = 1
    /\ nDaubs = 2

\* The operations of the input handlers, of draw() and of the view switch
\* that are not the finish of an open stroke.
NonFinishOps ==
    {"strokeStart", "strokeContinue", "mouseDown", "mouseUp", "mouseMove",
     "panMove", "zoomPositive", "zoomNegative", "wheelZero", "draw", "show2d",
     "show3d"}

StrokeStartRecovers ==
    [][/\ lastOp' = "strokeStart"
          => /\ brushStroking'
             /\ thrown' = {}
             /\ Len(history') = Len(history) /\ historyIndex' = historyIndex
             /\ preStroke' = Live(Display)
             /\ nDaubs' = nDaubs + 1
       /\ (lastOp = "strokeStart" /\ lastOp' = "strokeFinish") => ~brushStroking'
      ]_vars

\* A pen stroke has started while the stroke the left button had opened was
\* still open: two daubs and no checkpoint yet.
StrokeStartRecoversWitness ==
    /\ lastOp = "strokeStart"
    /\ brushStroking
    /\ eventState.pointerDown
    /\ eventState.mouseButtonsDown[0]
    /\ nDaubs = 2
    /\ history = <<>>

\* The four bytes of pixel (x, y) of a w-pixel-wide buffer.
PixelAt(bytes, w, x, y) == SubSeq(bytes, 4 * (y * w + x) + 1, 4 * (y * w + x) + 4)

\* The scenario of the specification: on a 4x4 image of 255s, a daub at
\* (1, 1) with colour 0, opacity 1.0 and radius 1.
DaubExample ==
    LET blank == [i \in 1..64 |-> 255]
        daubed == DaubWith(blank, 4, <<1, 1>>, EffectiveRadius(1, 10), 0, 10)
    IN  /\ PixelAt(daubed, 4, 1, 1) = <<0, 0, 0, 255>>
        /\ PixelAt(daubed, 4, 0, 0) = <<255, 255, 255, 255>>

\* C15: a stroke-start paints at once, and what it paints is the disc: with
\* c the image point under the cursor (the point imageMatrix maps to the
\* last mouse position) and r = brushSize * pressure, every pixel of the
\* buffer at Euclidean distance <= r from c is blended toward the brush
\* colour and made opaque, and every other pixel keeps its four bytes; the
\* buffer keeps its size. The scenario of the specification holds too.
DaubPaintsDisc ==
    /\ DaubExample
    /\ [][lastOp' = "strokeStart"
            => LET P == eventState.lastMousePosition
                   r10 == brushSize * MousePressure
                   old == Live(Display)
                   new == Live(Display')
               IN  /\ Len(new) = Len(old)
                   /\ updated'
                   /\ \E cx, cy \in -MaxShift..MaxShift :
                          /\ imageMatrix.tx * imageMatrix.sd + cx * imageMatrix.sn
                                 = P[1] * imageMatrix.sd
                          /\ imageMatrix.ty * imageMatrix.sd + cy * imageMatrix.sn
                                 = P[2] * imageMatrix.sd
                          /\ \A x \in 0..(width - 1), y \in 0..(height - 1) :
                                 PixelAt(new, width, x, y) =
                                     IF 100 * ((x - cx) * (x - cx) + (y - cy) * (y - cy))
                                            <= r10 * r10
                                     THEN <<Blend(PixelAt(old, width, x, y)[1]),
                                            Blend(PixelAt(old, width, x, y)[2]),
                                            Blend(PixelAt(old, width, x, y)[3]), 255>>
                                     ELSE PixelAt(old, width, x, y)
         ]_vars

\* The first daub on the loaded 3x1 image, from a cursor whose disc reaches
\* the right pixel only: the left pixel has kept its bytes.
DaubPaintsDiscWitness ==
    /\ lastOp = "strokeStart"
    /\ nDaubs = 1
    /\ width = 3
    /\ eventState.lastMousePosition = <<41, 11>>
    /\ PixelAt(Live(Display), 3, 0, 0) = PixelAt(ImageData("B").data, 3, 0, 0)
    /\ PixelAt(Live(Display), 3, 1, 0) = PixelAt(ImageData("B").data, 3, 1, 0)
    /\ PixelAt(Live(Display), 3, 2, 0) # PixelAt(ImageData("B").data, 3, 2, 0)

\* C16: draw() uploads the live buffer, with the width, exactly when updated
\* was set, and leaves updated false; the buffer, the history, historyIndex
\* and the matrices keep their values, and a draw() entered with updated
\* false changes neither the texture nor any of these, so a second draw()
\* in a row changes nothing.
DrawUploadsWhenUpdated ==
    [][lastOp' = "draw"
          => /\ ~updated'
             /\ updated => texture' = <<Live(Display), width>>
             /\ ~updated => UNCHANGED <<texture, updated>>
             /\ UNCHANGED <<width, height, heap, buffer, history, historyIndex,
                            imageMatrix, meshMatrix, displayType>>
             /\ lastOp = "draw" => UNCHANGED <<displayVars, texture, viewVars>>
      ]_vars

\* A draw() has uploaded the loaded 3x1 image after a stroke and an undo().
DrawUploadsWhenUpdatedWitness ==
    /\ lastOp = "draw"
    /\ ~updated
    /\ width = 3
    /\ texture = <<Live(Display), 3>>
    /\ nDaubs = 2
    /\ historyIndex = 0
    /\ Len(history) = 2

\* C17, as the specification states it: in every state that a draw() has
\* just produced, the texture holds the bytes and the width of the live
\* buffer, the blank buffer of the constructor included.
TextureMatchesAfterDraw ==
    lastOp = "draw" => texture = <<Live(Display), width>>

\* C18: in the Texture view a wheel event with a non-zero delta changes the
\* scale of imageMatrix and leaves the image point under the cursor where
\* it was: uiToImageCoordinates of the last mouse position is the same
\* before and after, whatever pans and zooms came before.
ZoomKeepsCursorPoint ==
    [][(lastOp' \in ZoomOps /\ displayType = "Texture")
          => LET P == eventState.lastMousePosition
             IN  /\ imageMatrix'.sn * imageMatrix.sd # imageMatrix.sn * imageMatrix'.sd
                 /\ OnGrid(imageMatrix', P)
                 /\ uiToImageCoordinates(imageMatrix', P)
                        = uiToImageCoordinates(imageMatrix, P)
      ]_vars

\* A zoom out about a cursor at (6, 4) that lies over the image point
\* (8, 4), after a pan and another zoom.
ZoomKeepsCursorPointWitness ==
    /\ lastOp \in ZoomOps
    /\ displayType = "Texture"
    /\ imageMatrix.sn = 1 /\ imageMatrix.sd = 2
    /\ eventState.lastMousePosition = <<6, 4>>
    /\ uiToImageCoordinates(imageMatrix, <<6, 4>>) = <<8, 4>>

\* A matrix of translation and uniform scale is invertible when its scale
\* is a non-zero number.
Invertible(m) == m.sn # 0 /\ m.sd # 0

\* The scale of matrix b as a multiple of the scale of matrix a, as a
\* fraction (not reduced).
ScaleRatio(a, b) == <<b.sn * a.sd, b.sd * a.sn>>

PanKeepsCursorPoint ==
    [][(lastOp' = "panMove" /\ displayType = "Texture")
          => LET p == eventState'.lastMousePosition
                 q == eventState.lastMousePosition
                 a == uiToImageCoordinates(imageMatrix, p)
                 b == uiToImageCoordinates(imageMatrix, q)
             IN  /\ imageMatrix' = TranslateImage(imageMatrix, <<a[1] - b[1], a[2] - b[2]>>)
                 /\ imageMatrix'.sn = imageMatrix.sn /\ imageMatrix'.sd = imageMatrix.sd
                 /\ OnGrid(imageMatrix', p)
                 /\ uiToImageCoordinates(imageMatrix', p) = b
      ]_vars

\* A pan from (2, 2) to (6, 4) at scale 1/2 has carried the image point
\* under the cursor along.
PanKeepsCursorPointWitness ==
    /\ lastOp = "panMove"
    /\ displayType = "Texture"
    /\ imageMatrix = [tx |-> 6, ty |-> 4, sn |-> 1, sd |-> 2]
    /\ eventState.lastMousePosition = <<6, 4>>
    /\ eventState.pan

\* C26, as the specification states it: in every state the live buffer is
\* an object of its own, none of the snapshots in history, and a daub
\* changes the bytes of no snapshot that stays in history.
SnapshotsAreDeepCopies ==
    /\ [](\A i \in 1..Len(history) : history[i] # buffer)
    /\ [][lastOp' \in {"strokeStart", "strokeContinue"}
            => \A i \in 1..Len(history) :
                   Bytes(heap', history[i]) = Bytes(heap, history[i])]_vars

\* C27: a zoom and a pan-move change the matrix of the view on display
\* only: in the Texture view meshMatrix keeps its value, in the Mesh view
\* imageMatrix does, and in both the heap, the live buffer, width, height,
\* history, historyIndex and updated stay as they were.
PanZoomChangeActiveMatrixOnly ==
    [][lastOp' \in ZoomOps \cup {"panMove"}
          => /\ displayType = "Texture" => meshMatrix' = meshMatrix
             /\ displayType = "Mesh" => imageMatrix' = imageMatrix
             /\ UNCHANGED <<heap, buffer, width, height, history, historyIndex, updated>>
      ]_vars

\* A pan in the Mesh view has moved the mesh, with the image zoomed and
\* panned, a snapshot in history and updated set by an undo().
PanZoomChangeActiveMatrixOnlyWitness ==
    /\ lastOp = "panMove"
    /\ displayType = "Mesh"
    /\ meshMatrix.tx # 0
    /\ imageMatrix.sn # imageMatrix.sd
    /\ imageMatrix.tx # 0
    /\ Len(history) >= 1
    /\ updated

\* The history intent the specification gives a key-down: undo for Ctrl+Z
\* without Shift, redo for Ctrl+Shift+Z and Ctrl+R, none during IME
\* composition or without Ctrl.
NormalisedIntent(e) ==
    IF e.isComposing \/ e.keyCode = 229 \/ ~e.ctrlKey THEN "keydown"
    ELSE IF e.keyCode = 90 THEN (IF e.shiftKey THEN "redo" ELSE "undo")
    ELSE IF e.keyCode = 82 THEN "redo"
    ELSE "keydown"

\* C28: every key-down has the intent the specification gives it, and what
\* handleKeydown does to the display is that intent carried out once: one
\* undo() for undo, one redo() for redo, nothing otherwise.
KeydownIsOneIntent ==
    /\ \A e \in KeydownEvents : KeydownIntent(e) = NormalisedIntent(e)
    /\ [][/\ lastOp' = "undo" => Display' = Tidy(undo(Display))
          /\ lastOp' = "redo" => Display' = Tidy(redo(Display))
          /\ lastOp' = "keydown"
                => UNCHANGED <<heap, buffer, history, historyIndex, updated>>
         ]_vars

\* A Ctrl+Z two snapshots deep has gone one snapshot back.
KeydownIsOneIntentWitness ==
    /\ lastOp = "undo"
    /\ historyIndex = 1
    /\ Len(history) = 3
    /\ nDaubs >= 2
    /\ Live(Display) # Live(Tidy(undo(Display)))

\* The Alt key pressed and released around the mouse: left and middle
\* button presses, releases and moves.
AltKeydowns == {e \in KeydownEvents : e.key = "Alt"}
AltKeyups == {e \in KeyupEvents : e.key = "Alt"}

NextAlt ==
    \/ \E e \in AltKeydowns : handleKeydown(e)
    \/ \E e \in AltKeyups : handleKeyup(e)
    \/ \E b \in {0, 1}, p \in FramePositions : handleMouseDown(b, p)
    \/ \E b \in {0, 1} : handleMouseUp(b)
    \/ handleMouseMove(InputPosition)

SpecAlt == Init /\ [][NextAlt]_vars

\* C30: a mouse event is a pan intent or a stroke intent, never both: a left
\* press while Alt is held starts a pan and paints nothing, a move that pans
\* paints nothing and a move that paints leaves the view matrices alone.
MouseEventIsPanOrStroke ==
    [][/\ (eventState.altKey /\ ~eventState.mouseButtonsDown[0]
              /\ eventState'.mouseButtonsDown[0])
            => /\ eventState'.pan
               /\ lastOp' # "strokeStart"
               /\ Live(Display') = Live(Display)
       /\ lastOp' = "panMove" => Live(Display') = Live(Display)
       /\ lastOp' = "strokeContinue" => UNCHANGED <<imageMatrix, meshMatrix>>
      ]_vars

\* The view buttons of the application and the view switch of the display,
\* with zooms and checkpoints between them.
NextApp ==
    \/ on2d
    \/ on3d
    \/ show2d
    \/ show3d
    \/ \E e \in WheelEvents : eventsHandleWheel(e)
    \/ Checkpoint

SpecApp == Init /\ [][NextApp]_vars

\* C21: in every reachable state exactly one of the Texture and Mesh views
\* is active: the display's view is one of the two, and the application
\* renders exactly one of TexturePaint and MeshPaint.
ExactlyOneViewActive ==
    /\ displayType \in {"Texture", "Mesh"}
    /\ (showTexture /\ ~showMesh) \/ (~showTexture /\ showMesh)

\* Files opened with the Open button and with the 'O' key, their reads and
\* decodes, and the render loop, which keeps running.
NextLoad ==
    \/ \E file \in Files : handleOpen(file)
    \/ \E e \in KeyupEvents : handleKeyup(e)
    \/ \E file \in Files : selectFile(file)
    \/ \E r \in BagToSet(reads) : readerOnload(r)
    \/ \E img \in Images : imageOnload(img)
    \/ frame

SpecLoad == Init /\ [][NextLoad]_vars /\ WF_vars(frame)

LoadCompleted == lastOp \in {"loaded", "loadedOverHistory"}

\* C29: the step that completes an image load requests a redraw, and while
\* the render loop keeps running every completed load is followed, with no
\* input needed, by a frame that has uploaded and drawn the loaded image.
LoadedImageIsDrawn ==
    /\ [][LoadCompleted' => (dirty' /\ updated')]_vars
    /\ LoadCompleted ~> (/\ lastOp = "frameDraw"
                         /\ ~updated
                         /\ texture = <<Bytes(heap, buffer), width>>)

\* A frame has drawn image B although every earlier redraw request had
\* been consumed when its decode finished.
LoadedImageIsDrawnWitness ==
    /\ lastOp = "frameDraw"
    /\ texture = <<ImageData("B").data, ImageData("B").width>>
    /\ ~updated
    /\ ~dirty
    /\ InFlight = 0

\* A mouse and a pen over the widget: the mouse events, and the pointer
\* events of both as Widget's pointerHandler hands them on. A browser gives
\* a mouse pointer event the pressure 0.5 with a button down and 0 without.
WidgetPointerEvents ==
    { PointerEvent("mouse", InputPosition, 5),
      PointerEvent("mouse", InputPosition, 0),
      PointerEvent("pen", InputPosition, 5),
      PointerEvent("pen", InputPosition, 10) }

NextPointer ==
    \/ handleMouseDown(0, InputPosition)
    \/ handleMouseUp(0)
    \/ handleMouseMove(InputPosition)
    \/ \E e \in WidgetPointerEvents : handlePointerDown(pointerHandler(e))
    \/ \E e \in WidgetPointerEvents : handlePointerUp(pointerHandler(e))
    \/ \E e \in WidgetPointerEvents : handlePointerMove(pointerHandler(e))

SpecPointer == Init /\ [][NextPointer]_vars

StrokeOps == {"strokeStart", "strokeContinue", "strokeFinish"}

\* C22: every pressure handed to the brush lies in [0, 1], and every daub
\* painted for a mouse event (a mouse-down, -move or -up, or a pointer event
\* of pointerType 'mouse') is painted with pressure exactly 1.0.
MousePressureIsOne ==
    /\ brushCall.pressure \in 0..MousePressure
    /\ (lastOp \in StrokeOps /\ brushCall.pointerType = "mouse")
           => brushCall.pressure = MousePressure

\* C23: the position a stroke-start hands to the brush is the image-space
\* image of the UI position of the event that started the stroke, whatever
\* moves came before it, none included.
StrokeStartsAtEventPosition ==
    lastOp = "strokeStart"
        => brushCall.c = uiToImageCoordinates(imageMatrix, brushCall.position)

\* C25: in Mesh mode every zoom pivots on the viewport centre, wherever the
\* cursor is: the mesh point under the viewport centre, -t / s in each
\* axis, is the same before and after the zoom.
MeshZoomPivotsOnCentre ==
    [][(lastOp' \in ZoomOps /\ displayType = "Mesh")
          => /\ meshMatrix'.tx * meshMatrix'.sd * meshMatrix.sn
                   = meshMatrix.tx * meshMatrix.sd * meshMatrix'.sn
             /\ meshMatrix'.ty * meshMatrix'.sd * meshMatrix.sn
                   = meshMatrix.ty * meshMatrix.sd * meshMatrix'.sn
      ]_vars

\* Strokes over an imageMatrix whose scale is 0, the value a Float32 scale
\* reaches when zooming out goes on (nothing clamps it), and over the
\* identity.
SingularImage == [tx |-> 0, ty |-> 0, sn |-> 0, sd |-> 1]

InitDegenerate == \E m \in {IdentityImage, SingularImage} : InitWith(m)

NextDegenerate ==
    \/ \E p \in DaubPositions : handleMouseDown(0, p)
    \/ handleMouseUp(0)
    \/ \E p \in DaubPositions : handleMouseMove(p)

SpecDegenerate == InitDegenerate /\ [][NextDegenerate]_vars

MouseOps == StrokeOps \cup {"mouseDown", "mouseMove", "mouseUp"}

\* C24: while imageMatrix is singular every mouse sample is dropped: no
\* coordinate reaches the brush, no daub is painted, no matrix changes and
\* nothing is thrown.
DegenerateSampleIsDropped ==
    [][(~Invertible(imageMatrix) /\ lastOp' \in MouseOps)
          => /\ brushCall' = NoCall
             /\ Live(Display') = Live(Display)
             /\ nDaubs' = nDaubs
             /\ UNCHANGED <<imageMatrix, meshMatrix>>
             /\ thrown' = {}
      ]_vars

\* C31: eventState.pan is true only while a button that can have started
\* the pan is held: with the middle and the left button both released,
\* whether Alt is held or not, no pan is open.
PanStopsWithButton ==
    (~eventState.mouseButtonsDown[0] /\ ~eventState.mouseButtonsDown[1])
        => ~eventState.pan

\* C33: every pan-move belongs to a gesture whose pan-start has happened
\* and has not been stopped, whatever the order of the Alt key and the
\* mouse buttons: handlePanMove runs only while eventState.pan is set, the
\* flag handlePanStart sets together with lastPanPosition.
PanMoveFollowsPanStart ==
    [][lastOp' = "panMove" => eventState.pan]_vars

\* C32: the brush calls are well-formed for every interleaving of mouse and
\* pen events: continueStroke and finishStroke are called only while a
\* stroke is open, and startStroke only while none is.
BrushCallsAreWellFormed ==
    [][/\ brushCall'.fn \in {"continueStroke", "finishStroke"} => brushStroking
       /\ brushCall'.fn = "startStroke" => ~brushStroking
      ]_vars

\* C34: one selection in the file dialog hands the file to one FileReader,
\* whose onload makes the one load() or setMesh() call, however often the
\* 'O' key went up before: an image starts exactly one read, a .obj file
\* never more than one.
OneSelectionOneLoad ==
    [][/\ lastOp' = "selectImage"
            => BagCardinality(reads') = BagCardinality(reads) + 1
       /\ lastOp' = "selectObj"
            => BagCardinality(reads') <= BagCardinality(reads) + 1
      ]_vars

\* Wheel events of several magnitudes in both directions, in both views:
\* deltas of 100 and of 25 pixels, the amounts 1 and 1/4.
FineWheelEvents ==
    { [deltaY |-> 100, deltaMode |-> DOM_DELTA_PIXEL],
      [deltaY |-> -100, deltaMode |-> DOM_DELTA_PIXEL],
      [deltaY |-> 25, deltaMode |-> DOM_DELTA_PIXEL],
      [deltaY |-> -25, deltaMode |-> DOM_DELTA_PIXEL],
      [deltaY |-> 0, deltaMode |-> DOM_DELTA_PIXEL] }

NextWheel ==
    \/ \E e \in FineWheelEvents : eventsHandleWheel(e)
    \/ show2d
    \/ show3d
    \/ Checkpoint

SpecWheel == Init /\ [][NextWheel]_vars

\* The matrix of the view on display.
ActiveMatrix == IF displayType = "Texture" THEN imageMatrix ELSE meshMatrix

\* Whether a step has made the scale of the active matrix larger, smaller.
ScaleGrew == ActiveMatrix'.sn * ActiveMatrix.sd > ActiveMatrix.sn * ActiveMatrix'.sd
ScaleShrank == ActiveMatrix'.sn * ActiveMatrix.sd < ActiveMatrix.sn * ActiveMatrix'.sd

\* Whether the factor of the delta +1 is larger than 1.
UnitDeltaGrows == ScaleFactor(<<1, 1>>)[1] > ScaleFactor(<<1, 1>>)[2]

\* C35: the direction of a zoom depends only on the sign of the delta:
\* every positive delta scales the active matrix the way the delta +1
\* does, every negative delta the opposite way, whatever its magnitude.
ZoomDirectionFollowsSign ==
    [][/\ lastOp' = "zoomPositive"
            => IF UnitDeltaGrows THEN ScaleGrew ELSE ScaleShrank
       /\ lastOp' = "zoomNegative"
            => IF UnitDeltaGrows THEN ScaleShrank ELSE ScaleGrew
      ]_vars

====
